---- MODULE Spec2Model ----
(***************************************************************************)
(* PublicAutoForwardBot (src/bot.py): the /forward and /forward_edit       *)
(* wizards, the /stop, /status and /start commands, and the two forwarding *)
(* coroutines execute_simple_forward and execute_edit_forward, as one      *)
(* asyncio program.  Every coroutine is cut at its awaits: the code        *)
(* between two awaits runs atomically on the event loop, and an await that *)
(* talks to the platform either returns or raises.                         *)
(*                                                                         *)
(* A Python str is a sequence of one-character strings.  An optional value *)
(* (None or a value) is the empty tuple or the one-element tuple.          *)
(***************************************************************************)
EXTENDS Integers, Sequences, FiniteSets, TLC

\* ------------------------------------------------------------------ bounds

\* Number of updates (commands and text messages) the users send in one run.
MaxUpdates == 9

\* Number of platform calls (replies, edits, forwards, copies, history reads)
\* that raise in one run.
MaxFailures == 2

\* Number of messages in the source channel's history.
HistLen == 3

\* Number of messages in the history of the long source channel: enough for
\* one progress edit and a message after it.
LongHistLen == 21

\* The users who talk to the bot.
Users == {"u1", "u2"}

\* The shortest wizard takes four updates: /forward, source, destination,
\* limit.  So a run creates at most this many tasks.
MaxJobs == MaxUpdates \div 4

Jobs == 1..MaxJobs

\* ------------------------------------------------------------- Python str

None == << >>

Some(x) == << x >>

Digits == {"0", "1", "2", "3", "4", "5", "6", "7", "8", "9"}

Whitespace == {" "}

DigitValue(c) ==
  CASE c = "0" -> 0 [] c = "1" -> 1 [] c = "2" -> 2 [] c = "3" -> 3
    [] c = "4" -> 4 [] c = "5" -> 5 [] c = "6" -> 6 [] c = "7" -> 7
    [] c = "8" -> 8 [] c = "9" -> 9

\* str.isdigit(): at least one character, and every character a digit.
IsDigit(s) == Len(s) > 0 /\ \A i \in 1..Len(s) : s[i] \in Digits

\* int(s) of a string of digits.
RECURSIVE ToInt(_)
ToInt(s) ==
  IF Len(s) = 0 THEN 0
  ELSE 10 * ToInt(SubSeq(s, 1, Len(s) - 1)) + DigitValue(s[Len(s)])

\* str.lstrip(chars), str.rstrip(), str.strip().
RECURSIVE LStrip(_, _)
LStrip(s, chars) ==
  IF Len(s) > 0 /\ s[1] \in chars THEN LStrip(Tail(s), chars) ELSE s

RECURSIVE RStrip(_, _)
RStrip(s, chars) ==
  IF Len(s) > 0 /\ s[Len(s)] \in chars
  THEN RStrip(SubSeq(s, 1, Len(s) - 1), chars)
  ELSE s

Strip(s) == RStrip(LStrip(s, Whitespace), Whitespace)

\* str.startswith(p).
StartsWith(s, p) == Len(s) >= Len(p) /\ SubSeq(s, 1, Len(p)) = p

\* sub in s.
Contains(s, sub) ==
  \E i \in 1..(Len(s) - Len(sub) + 1) : SubSeq(s, i, i + Len(sub) - 1) = sub

\* s.split('/')[-1]: what follows the last '/', or all of s.
RECURSIVE LastSegment(_)
LastSegment(s) ==
  IF Len(s) = 0 \/ s[Len(s)] = "/" THEN << >>
  ELSE Append(LastSegment(SubSeq(s, 1, Len(s) - 1)), s[Len(s)])

\* s.replace(old, new): the occurrences of old are found left to right and do
\* not overlap; with old empty, new goes before every character and at the
\* end.
RECURSIVE Replace(_, _, _)
Replace(s, old, new) ==
  IF Len(old) = 0
  THEN IF Len(s) = 0 THEN new
       ELSE new \o << s[1] >> \o Replace(Tail(s), old, new)
  ELSE IF Len(s) < Len(old) THEN s
  ELSE IF StartsWith(s, old)
  THEN new \o Replace(SubSeq(s, Len(old) + 1, Len(s)), old, new)
  ELSE << s[1] >> \o Replace(Tail(s), old, new)

\* ------------------------------------------------------------- Python dict

\* d[k] = v
Put(d, k, v) == [x \in (DOMAIN d) \cup {k} |-> IF x = k THEN v ELSE d[x]]

\* del d[k]
Del(d, k) == [x \in (DOMAIN d) \ {k} |-> d[x]]

EmptyDict == << >>

\* ------------------------------------------------------------ environment

\* What a user types at each step of the wizard (message.text, before strip).
SourceInputs == { << "@", "a" >> }

DestinationInputs == { << "@", "b" >> }

FindInputs == { << "a", "b" >> }

ReplaceInputs == { << "-" >>, << "z" >>, << " " >> }

LimitInputs ==
  { << "-" >>, << "0" >>, << "2" >>, << "a", "b", "c" >>, << "-", "5" >> }

Inputs(step) ==
  CASE step = "waiting_source" -> SourceInputs
    [] step = "waiting_destination" -> DestinationInputs
    [] step = "waiting_find_text" -> FindInputs
    [] step = "waiting_replace_text" -> ReplaceInputs
    [] step = "waiting_limits" -> LimitInputs

\* The source channels with messages: the channel the wizard's source names,
\* and a long one.  Any other name yields no message.
Channel == << "a" >>

LongChannel == << "l" >>

\* The number of messages in the history get_chat_history(source) walks.
History(source) ==
  IF source = Channel THEN HistLen
  ELSE IF source = LongChannel THEN LongHistLen
  ELSE 0

\* msg.caption of the i-th message get_chat_history yields: a media message
\* whose caption holds the find text twice, a message without caption, a
\* media message whose caption does not hold it, and so on.
Caption(i) ==
  CASE i % 3 = 1 -> Some(<< "x", "a", "b", "a", "b" >>)
    [] i % 3 = 2 -> None
    [] i % 3 = 0 -> Some(<< "c", "d" >>)

\* ------------------------------------------------------------------ state

VARIABLES
  is_forwarding,  \* self.is_forwarding
  user_states,    \* self.user_states: user id -> session dict
  handler,        \* per user, the handler coroutine serving the user's update
  jobs,           \* the tasks made by asyncio.create_task, in creation order
  updates,        \* the number of updates dispatched so far
  failures,       \* the number of platform calls that have raised so far
  senders         \* the users who send updates in this run

vars ==
  << is_forwarding, user_states, handler, jobs, updates, failures, senders >>

\* A handler coroutine suspended at an await (or not running: pc = "idle").
\* reply is the message it is sending; text, user_data and limit are its
\* locals user_text, user_data and limit; message is the message.text of the
\* update a conversation step serves.
Handler(pc, reply, text, user_data, limit) ==
  [pc |-> pc, reply |-> reply, text |-> text, user_data |-> user_data,
   limit |-> limit, message |-> None]

\* The handler h, serving the update whose text is message.
Serving(message, h) == [h EXCEPT !.message = message]

Idle == Handler("idle", "", None, None, None)

\* No forward or copy call is awaited.
NoCall == [kind |-> "none", caption |-> None]

\* A slot of the task table no task has been created in.  Of a task: pc is
\* the await it is suspended at; mode tells execute_simple_forward from
\* execute_edit_forward; source .. limit are its parameters; forwarded_count
\* and edited_count its counters; fetched the number of messages the history
\* iterator has yielded; call the forward or copy call it awaits; owner the
\* sender of its message parameter.  History of the run, for the properties:
\* stop_requested (a /stop was handled after it started), attempted (relay
\* calls issued), copied (copy calls that returned), exit (why it left the
\* loop or failed), given (the source parameter as it was passed), shown (the
\* counters in the text of the progress edit it awaits).
NoJob ==
  [pc |-> "none", mode |-> "", source |-> None, destination |-> None,
   find_text |-> None, replace_text |-> None, limit |-> None,
   forwarded_count |-> 0, edited_count |-> 0, fetched |-> 0, call |-> NoCall,
   owner |-> "", stop_requested |-> FALSE, attempted |-> 0, copied |-> 0,
   exit |-> "", given |-> None, shown |-> None]

\* PublicAutoForwardBot.__init__: no job, no session.
Constructed ==
  /\ is_forwarding = FALSE
  /\ user_states = EmptyDict
  /\ handler = [u \in Users |-> Idle]
  /\ jobs = [j \in Jobs |-> NoJob]
  /\ failures = 0

\* One user talks to the bot, in a run of MaxUpdates updates.
Init == Constructed /\ senders = {"u1"} /\ updates = 0

\* Both users talk to the bot, in a run of MaxUpdates - 1 updates: enough for
\* each of them to complete a wizard.
InitRace == Constructed /\ senders = Users /\ updates = 1

HttpsPrefix ==
  << "h", "t", "t", "p", "s", ":", "/", "/", "t", ".", "m", "e", "/" >>

\* Source texts of a wizard that has been completed: a channel name, bare or
\* behind the public-link prefix, with "@" sigils before the prefix and before
\* the name and with a trailing "/"; and the long channel.
Ats == { << >>, << "@" >> }

Foo == << "f", "o", "o" >>

SourceTexts ==
  { a \o b \o c \o Foo \o d :
      a \in Ats, b \in { << >>, HttpsPrefix }, c \in Ats,
      d \in { << >>, << "/" >> } }
  \cup { << "@", "@" >> \o Foo, << "@" >> \o LongChannel }

\* The sessions of the wizards that end with a source text s: the wizard of
\* execute_edit_forward is taken for the long channel only.
CompletedSessions(s) ==
  { [mode |-> mode, step |-> "waiting_limits", chat_id |-> "u1", source |-> s,
     destination |-> << "@", "b" >>, find_text |-> << "a", "b" >>,
     replace_text |-> << "z" >>] :
      mode \in IF s = << "@" >> \o LongChannel
               THEN {"simple_forward", "edit_forward"}
               ELSE {"simple_forward"} }

\* The tasks that were created and have not exited.
Live == {j \in Jobs : jobs[j].pc \notin {"none", "done"}}

\* The tasks between their first statement and their finally block.
Started == {j \in Jobs : jobs[j].pc \notin {"none", "created", "done"}}

Created == {j \in Jobs : jobs[j].pc # "none"}

\* asyncio.create_task puts the task's first step on the event loop's ready
\* queue, so the task runs first on the loop's next pass, before the loop
\* polls for the completion of any awaited platform call: with a task newly
\* created, that first step is what runs next.
NoNewTask == \A j \in Jobs : jobs[j].pc # "created"

\* ------------------------------------------------------ command handlers

\* pyrogram takes the user's next update off its queue and calls the handler;
\* the user waits for the handler of the previous one to end.
Receive(u) ==
  /\ NoNewTask
  /\ u \in senders
  /\ handler[u].pc = "idle"
  /\ updates < MaxUpdates
  /\ updates' = updates + 1
  /\ UNCHANGED << failures, senders >>

\* An awaited platform call returns (TRUE) or raises (FALSE).
Outcomes == IF failures < MaxFailures THEN {TRUE, FALSE} ELSE {TRUE}

Await(ok) ==
  /\ ok \in Outcomes
  /\ failures' = IF ok THEN failures ELSE failures + 1
  /\ UNCHANGED senders

\* handle_start: the help text is sent; nothing else.
handle_start(u) ==
  /\ Receive(u)
  /\ handler' = [handler EXCEPT ![u] = Handler("start", "help", None, None, None)]
  /\ UNCHANGED << is_forwarding, user_states, jobs >>

\* handle_status: the flag (and len(self.user_states)) is read into the
\* status text, which is then sent.
handle_status(u) ==
  /\ Receive(u)
  /\ handler' = [handler EXCEPT ![u] =
       Handler("status", IF is_forwarding THEN "forwarding" ELSE "ready",
               None, None, None)]
  /\ UNCHANGED << is_forwarding, user_states, jobs >>

\* Mutant of handle_stop: the sender's session is dropped with the flag.
handle_stop_DropsSession(u) ==
  /\ Receive(u)
  /\ IF is_forwarding
     THEN /\ is_forwarding' = FALSE
          /\ jobs' = [j \in Jobs |->
               IF j \in Started
               THEN [jobs[j] EXCEPT !.stop_requested = TRUE]
               ELSE jobs[j]]
          /\ handler' = [handler EXCEPT ![u] =
               Handler("stop", "stopped", None, None, None)]
          /\ user_states' = Del(user_states, u)
     ELSE /\ handler' = [handler EXCEPT ![u] =
               Handler("stop", "nothing_to_stop", None, None, None)]
          /\ UNCHANGED << is_forwarding, jobs, user_states >>

\* handle_stop: the flag is cleared when it is set; every task that has
\* started and not exited is then a task the user asked to stop.
handle_stop(u) ==
  /\ Receive(u)
  /\ IF is_forwarding
     THEN /\ is_forwarding' = FALSE
          /\ jobs' = [j \in Jobs |->
               IF j \in Started
               THEN [jobs[j] EXCEPT !.stop_requested = TRUE]
               ELSE jobs[j]]
          /\ handler' = [handler EXCEPT ![u] =
               Handler("stop", "stopped", None, None, None)]
     ELSE /\ handler' = [handler EXCEPT ![u] =
               Handler("stop", "nothing_to_stop", None, None, None)]
          /\ UNCHANGED << is_forwarding, jobs >>
  /\ UNCHANGED user_states

\* The reply of handle_start, handle_status or handle_stop returns or raises;
\* either way the handler is over (nothing follows the await, and pyrogram
\* logs what a handler raises).
CommandReplied(u) ==
  /\ NoNewTask
  /\ handler[u].pc \in {"start", "status", "stop"}
  /\ handler' = [handler EXCEPT ![u] = Idle]
  /\ UNCHANGED << is_forwarding, user_states, jobs, updates, failures, senders >>

\* Mutant of NewSession: the new session starts at the destination step.
NewSession_SkipsSource(u, mode) ==
  [mode |-> mode, step |-> "waiting_destination", chat_id |-> u]

\* The session handle_forward and handle_forward_edit store.
NewSession(u, mode) ==
  [mode |-> mode, step |-> "waiting_source", chat_id |-> u]

\* handle_forward (mode simple_forward) and handle_forward_edit (mode
\* edit_forward): the prompt is sent first.
handle_forward(u, mode) ==
  /\ Receive(u)
  /\ handler' = [handler EXCEPT ![u] =
       Handler("forward", "source_prompt", None, NewSession(u, mode), None)]
  /\ UNCHANGED << is_forwarding, user_states, jobs >>

\* The prompt was sent: the session is stored, over any session of the user.
\* Or the prompt raised: the except clause replies with the error.
ForwardPrompted(u) ==
  /\ NoNewTask
  /\ handler[u].pc = "forward"
  /\ \E ok \in BOOLEAN :
       /\ Await(ok)
       /\ IF ok
          THEN /\ user_states' =
                    Put(user_states, u, handler[u].user_data)
               /\ handler' = [handler EXCEPT ![u] = Idle]
          ELSE /\ handler' = [handler EXCEPT ![u] =
                    Handler("forward_except", "error", None, None, None)]
               /\ UNCHANGED user_states
  /\ UNCHANGED << is_forwarding, jobs, updates >>

\* The error reply of handle_forward's except clause returns or raises.
ForwardExcepted(u) ==
  /\ NoNewTask
  /\ handler[u].pc = "forward_except"
  /\ handler' = [handler EXCEPT ![u] = Idle]
  /\ UNCHANGED << is_forwarding, user_states, jobs, updates, failures, senders >>

\* ----------------------------------------------------------- the wizard

\* _handle_source_step
SourceStep(user_data, user_text) ==
  [Put(user_data, "source", user_text) EXCEPT !.step = "waiting_destination"]

\* Mutant of DestinationStep: the find-text step follows in either mode.
DestinationStep_AlwaysFind(user_data, user_text) ==
  [Put(user_data, "destination", user_text) EXCEPT !.step = "waiting_find_text"]

\* _handle_destination_step: the next step, and the prompt, depend on the mode.
DestinationStep(user_data, user_text) ==
  [Put(user_data, "destination", user_text) EXCEPT !.step =
     IF user_data.mode = "edit_forward"
     THEN "waiting_find_text"
     ELSE "waiting_limits"]

\* Mutant of FindTextStep: the limit step follows, with no replace step.
FindTextStep_SkipsReplace(user_data, user_text) ==
  [Put(user_data, "find_text", user_text) EXCEPT !.step = "waiting_limits"]

\* _handle_find_text_step
FindTextStep(user_data, user_text) ==
  [Put(user_data, "find_text", user_text) EXCEPT !.step = "waiting_replace_text"]

\* _handle_replace_text_step: "-" stands for the empty replacement.
ReplaceTextStep(user_data, user_text) ==
  [Put(user_data, "replace_text",
       IF user_text = << "-" >> THEN << >> ELSE user_text)
     EXCEPT !.step = "waiting_limits"]

\* The prompt a step sends once it has stored its field.
Prompt(step) ==
  CASE step = "waiting_destination" -> "destination_prompt"
    [] step = "waiting_find_text" -> "find_prompt"
    [] step = "waiting_replace_text" -> "replace_prompt"
    [] step = "waiting_limits" -> "limits_prompt"

\* The parse at the head of _handle_limits_step: limit stays None unless the
\* text is not "-" and is all digits; only a parsed limit <= 0 is refused.
ParseLimit(user_text) ==
  IF user_text # << "-" >> /\ IsDigit(user_text)
  THEN [refused |-> ToInt(user_text) <= 0, limit |-> Some(ToInt(user_text))]
  ELSE [refused |-> FALSE, limit |-> None]

\* Mutant of LimitsStep: the flag is not tested before the launch.
LimitsStep_Unchecked(u, user_data, user_text, message) ==
  LET parsed == ParseLimit(user_text) IN
  IF parsed.refused
  THEN /\ handler' = [handler EXCEPT ![u] =
            Serving(message, Handler("conversation", "limit_error", user_text,
                                     user_data, parsed.limit))]
       /\ UNCHANGED user_states
  ELSE /\ user_states' = Del(user_states, u)
       /\ handler' = [handler EXCEPT ![u] =
            Serving(message, Handler("launch", "starting", user_text,
                                     user_data, parsed.limit))]

\* _handle_limits_step up to its first await.
LimitsStep(u, user_data, user_text, message) ==
  LET parsed == ParseLimit(user_text) IN
  IF parsed.refused
  THEN /\ handler' = [handler EXCEPT ![u] =
            Serving(message, Handler("conversation", "limit_error", user_text,
                                     user_data, parsed.limit))]
       /\ UNCHANGED user_states
  ELSE /\ user_states' = Del(user_states, u)
       /\ IF is_forwarding
          THEN handler' = [handler EXCEPT ![u] =
                 Serving(message, Handler("conversation", "conflict",
                                          user_text, user_data, parsed.limit))]
          ELSE handler' = [handler EXCEPT ![u] =
                 Serving(message, Handler("launch", "starting", user_text,
                                          user_data, parsed.limit))]

\* One of the four field steps up to its await: the session dict is changed
\* in place, then the prompt is sent.
FieldStep(u, user_data, user_text, message) ==
  LET step == user_data.step
      changed ==
        CASE step = "waiting_source" -> SourceStep(user_data, user_text)
          [] step = "waiting_destination" -> DestinationStep(user_data, user_text)
          [] step = "waiting_find_text" -> FindTextStep(user_data, user_text)
          [] step = "waiting_replace_text" -> ReplaceTextStep(user_data, user_text)
  IN /\ user_states' = [user_states EXCEPT ![u] = changed]
     /\ handler' = [handler EXCEPT ![u] =
          Serving(message, Handler("conversation", Prompt(changed.step),
                                   user_text, changed, None))]

\* handle_conversation up to its first await, for a private text message that
\* is no command.  Without a session it returns at once.
handle_conversation(u) ==
  /\ Receive(u)
  /\ IF u \notin DOMAIN user_states
     THEN /\ handler' = [handler EXCEPT ![u] =
               Handler("returned", "", None, None, None)]
          /\ UNCHANGED user_states
     ELSE LET user_data == user_states[u] IN
          \E text \in Inputs(user_data.step) :
            IF user_data.step = "waiting_limits"
            THEN LimitsStep(u, user_data, Strip(text), text)
            ELSE FieldStep(u, user_data, Strip(text), text)
  /\ UNCHANGED << is_forwarding, jobs >>

\* The coroutine object _handle_limits_step hands to asyncio.create_task:
\* execute_edit_forward for mode edit_forward, else execute_simple_forward.
\* It has not run yet.
NewJob(u, user_data, limit) ==
  [NoJob EXCEPT
     !.pc = "created",
     !.owner = u,
     !.mode = IF user_data.mode = "edit_forward"
              THEN "edit_forward" ELSE "simple_forward",
     !.source = user_data.source,
     !.given = user_data.source,
     !.destination = user_data.destination,
     !.find_text = IF user_data.mode = "edit_forward"
                   THEN user_data.find_text ELSE None,
     !.replace_text = IF user_data.mode = "edit_forward"
                      THEN user_data.replace_text ELSE None,
     !.limit = limit]

\* asyncio.create_task: the task takes the next slot of the task table.
CreateTask(job) ==
  LET j == CHOOSE k \in Jobs \ Created : \A m \in Jobs \ Created : k <= m
  IN jobs' = [jobs EXCEPT ![j] = job]

\* The reply a wizard step awaited (a prompt, the limit error or the conflict
\* notice) returns, and the handler is over; or it raises, and the except
\* clause of handle_conversation replies with the error.
ConversationReplied(u) ==
  /\ NoNewTask
  /\ handler[u].pc = "conversation"
  /\ \E ok \in BOOLEAN :
       /\ Await(ok)
       /\ handler' = [handler EXCEPT ![u] =
            IF ok THEN Idle
            ELSE Handler("conversation_except", "error", None, None, None)]
  /\ UNCHANGED << is_forwarding, user_states, jobs, updates >>

\* The "Starting" reply of _handle_limits_step returns, and only now the task
\* is created; or it raises, and no task is created.
LaunchReplied(u) ==
  /\ NoNewTask
  /\ handler[u].pc = "launch"
  /\ \E ok \in BOOLEAN :
       /\ Await(ok)
       /\ IF ok
          THEN /\ CreateTask(NewJob(u, handler[u].user_data, handler[u].limit))
               /\ handler' = [handler EXCEPT ![u] = Idle]
          ELSE /\ handler' = [handler EXCEPT ![u] =
                    Handler("conversation_except", "error", None, None, None)]
               /\ UNCHANGED jobs
  /\ UNCHANGED << is_forwarding, user_states, updates >>

\* The error reply of handle_conversation's except clause returns, and the
\* user's session, if there is one, is deleted; or it raises, and the
\* deletion is not reached.
ConversationExcepted(u) ==
  /\ NoNewTask
  /\ handler[u].pc = "conversation_except"
  /\ \E ok \in BOOLEAN :
       /\ Await(ok)
       /\ user_states' =
            IF ok /\ u \in DOMAIN user_states
            THEN Del(user_states, u)
            ELSE user_states
  /\ handler' = [handler EXCEPT ![u] = Idle]
  /\ UNCHANGED << is_forwarding, jobs, updates >>

\* handle_conversation has returned without a reply.
HandlerReturned(u) ==
  /\ NoNewTask
  /\ handler[u].pc = "returned"
  /\ handler' = [handler EXCEPT ![u] = Idle]
  /\ UNCHANGED << is_forwarding, user_states, jobs, updates, failures, senders >>

\* ------------------------------------------------------------ the executor

\* Mutant of CleanSource: the "@" sigils are stripped from the final segment
\* of a link only.
CleanSource_LinkOnly(source) ==
  IF StartsWith(source, HttpsPrefix)
  THEN LStrip(LastSegment(source), {"@"})
  ELSE source

\* "Clean source input" of both executors.
CleanSource(source) ==
  LET s == IF StartsWith(source, HttpsPrefix)
           THEN LStrip(LastSegment(source), {"@"})
           ELSE source
  IN LStrip(s, {"@"})

\* The number of messages get_chat_history(source, limit=limit) yields: the
\* whole history for limit None, else at most limit.
Total(source, limit) ==
  IF limit = None \/ limit[1] >= History(source)
  THEN History(source)
  ELSE limit[1]

\* The counters in the text of a progress edit: forwarded_count, and in
\* execute_edit_forward edited_count too.
ProgressText(job, forwarded_count, edited_count) ==
  Some(IF job.mode = "edit_forward"
       THEN << forwarded_count, edited_count >>
       ELSE << forwarded_count >>)

\* Mutant of RelayCall: every message with a caption is copied.
RelayCall_AnyCaption(job, caption) ==
  IF job.mode = "edit_forward" /\ caption # None
  THEN [kind |-> "copy",
        caption |-> Some(Replace(caption[1], job.find_text, job.replace_text))]
  ELSE [kind |-> "forward", caption |-> None]

\* The call the loop body makes for a message: execute_edit_forward copies
\* with the rewritten caption when the caption is truthy and holds find_text,
\* and forwards otherwise; execute_simple_forward forwards.
RelayCall(job, caption) ==
  IF /\ job.mode = "edit_forward"
     /\ caption # None
     /\ Len(caption[1]) > 0
     /\ Contains(caption[1], job.find_text)
  THEN [kind |-> "copy",
        caption |-> Some(Replace(caption[1], job.find_text, job.replace_text))]
  ELSE [kind |-> "forward", caption |-> None]

\* Mutant of ProgressEvery: the status message is edited twice as often.
ProgressEvery_Halved == 20 \div 2

\* "Update progress every 20 messages".
ProgressEvery == 20

\* Mutant of Finally: the flag is left as it is.
Finally_Skipped == UNCHANGED is_forwarding

\* The finally block of both executors.
Finally == is_forwarding' = FALSE

\* A task that has exited: its locals are gone.
Done(job) == [NoJob EXCEPT !.pc = "done"]

\* The first statements of the task, up to the status reply: the flag is set
\* here, when the task first runs.
JobStart(j) ==
  /\ jobs[j].pc = "created"
  /\ is_forwarding' = TRUE
  /\ jobs' = [jobs EXCEPT ![j] =
       [@ EXCEPT !.pc = "status",
                 !.forwarded_count = 0,
                 !.edited_count = 0,
                 !.source = CleanSource(@)]]
  /\ UNCHANGED << user_states, handler, updates, failures, senders >>

\* The initial status reply returns, and the loop is entered; or it raises,
\* into the outer except clause.
JobStatusSent(j) ==
  /\ NoNewTask
  /\ jobs[j].pc = "status"
  /\ \E ok \in BOOLEAN :
       /\ Await(ok)
       /\ jobs' = [jobs EXCEPT ![j] =
            IF ok THEN [@ EXCEPT !.pc = "loop"]
            ELSE [@ EXCEPT !.pc = "except", !.exit = "status_error"]]
  /\ UNCHANGED << is_forwarding, user_states, handler, updates >>

\* One turn of "async for msg in get_chat_history(...)": the iterator raises,
\* or is exhausted, or yields the next message; then the flag is tested, and
\* with the flag set the forward or copy call is made.
JobFetch(j) ==
  /\ NoNewTask
  /\ jobs[j].pc = "loop"
  /\ \E ok \in BOOLEAN :
       /\ Await(ok)
       /\ jobs' = [jobs EXCEPT ![j] =
            IF ~ok
            THEN [@ EXCEPT !.pc = "except", !.exit = "history_error"]
            ELSE IF @.fetched >= Total(@.source, @.limit)
            THEN [@ EXCEPT !.pc = "complete", !.exit = "exhausted"]
            ELSE IF ~is_forwarding
            THEN [@ EXCEPT !.pc = "complete", !.exit = "stopped",
                           !.fetched = @ + 1]
            ELSE [@ EXCEPT !.pc = "relay",
                           !.fetched = @ + 1,
                           !.attempted = @ + 1,
                           !.call = RelayCall(jobs[j],
                                              Caption(jobs[j].fetched + 1))]]
  /\ UNCHANGED << is_forwarding, user_states, handler, updates >>

\* Mutant of JobRelayed: a forward or copy call that raises is not caught by
\* the inner except clause and ends the loop.
JobRelayed_Aborts(j) ==
  /\ NoNewTask
  /\ jobs[j].pc = "relay"
  /\ \E ok \in BOOLEAN :
       /\ Await(ok)
       /\ jobs' = [jobs EXCEPT ![j] =
            IF ok
            THEN LET copy == @.call.kind = "copy"
                     count == @.forwarded_count + 1
                     edited == @.edited_count + (IF copy THEN 1 ELSE 0)
                 IN [@ EXCEPT !.forwarded_count = count,
                              !.edited_count = edited,
                              !.copied = IF copy THEN @ + 1 ELSE @,
                              !.call = NoCall,
                              !.shown = IF count % ProgressEvery = 0
                                        THEN ProgressText(jobs[j], count, edited)
                                        ELSE None,
                              !.pc = IF count % ProgressEvery = 0
                                     THEN "progress" ELSE "sleep"]
            ELSE [@ EXCEPT !.call = NoCall, !.pc = "except",
                           !.exit = "relay_error"]]
  /\ UNCHANGED << is_forwarding, user_states, handler, updates >>

\* Mutant of JobRelayed: forwarded_count goes up for a call that raises, too.
JobRelayed_CountsFailed(j) ==
  /\ NoNewTask
  /\ jobs[j].pc = "relay"
  /\ \E ok \in BOOLEAN :
       /\ Await(ok)
       /\ jobs' = [jobs EXCEPT ![j] =
            IF ok
            THEN LET copy == @.call.kind = "copy"
                     count == @.forwarded_count + 1
                     edited == @.edited_count + (IF copy THEN 1 ELSE 0)
                 IN [@ EXCEPT !.forwarded_count = count,
                              !.edited_count = edited,
                              !.copied = IF copy THEN @ + 1 ELSE @,
                              !.call = NoCall,
                              !.shown = IF count % ProgressEvery = 0
                                        THEN ProgressText(jobs[j], count, edited)
                                        ELSE None,
                              !.pc = IF count % ProgressEvery = 0
                                     THEN "progress" ELSE "sleep"]
            ELSE [@ EXCEPT !.forwarded_count = @ + 1,
                           !.call = NoCall,
                           !.pc = "loop"]]
  /\ UNCHANGED << is_forwarding, user_states, handler, updates >>

\* Mutant of JobRelayed: edited_count goes up before the copy call is awaited,
\* so a copy that raises is counted.
JobRelayed_CountsFirst(j) ==
  /\ NoNewTask
  /\ jobs[j].pc = "relay"
  /\ \E ok \in BOOLEAN :
       /\ Await(ok)
       /\ jobs' = [jobs EXCEPT ![j] =
            LET copy == @.call.kind = "copy"
                count == @.forwarded_count + 1
                edited == @.edited_count + (IF copy THEN 1 ELSE 0)
            IN IF ok
               THEN [@ EXCEPT !.forwarded_count = count,
                              !.edited_count = edited,
                              !.copied = IF copy THEN @ + 1 ELSE @,
                              !.call = NoCall,
                              !.shown = IF count % ProgressEvery = 0
                                        THEN ProgressText(jobs[j], count, edited)
                                        ELSE None,
                              !.pc = IF count % ProgressEvery = 0
                                     THEN "progress" ELSE "sleep"]
               ELSE [@ EXCEPT !.edited_count = IF copy THEN @ + 1 ELSE @,
                              !.call = NoCall,
                              !.pc = "loop"]]
  /\ UNCHANGED << is_forwarding, user_states, handler, updates >>

\* The forward or copy call returns: the counters go up, and the task goes on
\* to the progress edit (every ProgressEvery-th message) or to the sleep.  Or
\* the call raises: the inner except clause logs and continues with the next
\* turn of the loop.
JobRelayed(j) ==
  /\ NoNewTask
  /\ jobs[j].pc = "relay"
  /\ \E ok \in BOOLEAN :
       /\ Await(ok)
       /\ jobs' = [jobs EXCEPT ![j] =
            IF ok
            THEN LET copy == @.call.kind = "copy"
                     count == @.forwarded_count + 1
                     edited == @.edited_count + (IF copy THEN 1 ELSE 0)
                 IN [@ EXCEPT !.forwarded_count = count,
                              !.edited_count = edited,
                              !.copied = IF copy THEN @ + 1 ELSE @,
                              !.call = NoCall,
                              !.shown = IF count % ProgressEvery = 0
                                        THEN ProgressText(jobs[j], count, edited)
                                        ELSE None,
                              !.pc = IF count % ProgressEvery = 0
                                     THEN "progress" ELSE "sleep"]
            ELSE [@ EXCEPT !.call = NoCall, !.pc = "loop"]]
  /\ UNCHANGED << is_forwarding, user_states, handler, updates >>

\* The progress edit returns, and the task sleeps; or it raises, and the inner
\* except clause continues with the next turn.  The sleep returns.
JobPaced(j) ==
  /\ NoNewTask
  /\ jobs[j].pc \in {"progress", "sleep"}
  /\ IF jobs[j].pc = "sleep"
     THEN /\ jobs' = [jobs EXCEPT ![j].pc = "loop"]
          /\ UNCHANGED << failures, senders >>
     ELSE \E ok \in BOOLEAN :
            /\ Await(ok)
            /\ jobs' = [jobs EXCEPT ![j] =
                 [@ EXCEPT !.shown = None,
                           !.pc = IF ok THEN "sleep" ELSE "loop"]]
  /\ UNCHANGED << is_forwarding, user_states, handler, updates >>

\* After the loop: the edit of the status message into the completion summary
\* returns, or raises into the outer except clause.
JobSummarised(j) ==
  /\ NoNewTask
  /\ jobs[j].pc = "complete"
  /\ \E ok \in BOOLEAN :
       /\ Await(ok)
       /\ jobs' = [jobs EXCEPT ![j] =
            IF ok THEN [@ EXCEPT !.pc = "ack"]
            ELSE [@ EXCEPT !.pc = "except", !.exit = "summary_error"]]
  /\ UNCHANGED << is_forwarding, user_states, handler, updates >>

\* The "Job completed" reply returns, and the task ends through its finally
\* block; or it raises into the outer except clause.
JobAcked(j) ==
  /\ NoNewTask
  /\ jobs[j].pc = "ack"
  /\ \E ok \in BOOLEAN :
       /\ Await(ok)
       /\ IF ok
          THEN /\ jobs' = [jobs EXCEPT ![j] = Done(@)]
               /\ Finally
          ELSE /\ jobs' = [jobs EXCEPT ![j] =
                    [@ EXCEPT !.pc = "except", !.exit = "ack_error"]]
               /\ UNCHANGED is_forwarding
  /\ UNCHANGED << user_states, handler, updates >>

\* Mutant of JobExcepted: the flag is cleared on the success path only.
JobExcepted_NoFinally(j) ==
  /\ NoNewTask
  /\ jobs[j].pc = "except"
  /\ jobs' = [jobs EXCEPT ![j] = Done(@)]
  /\ UNCHANGED << is_forwarding, user_states, handler, updates, failures,
                  senders >>

\* The outer except clause: its error reply returns or raises, and either way
\* the task ends through its finally block.
JobExcepted(j) ==
  /\ NoNewTask
  /\ jobs[j].pc = "except"
  /\ jobs' = [jobs EXCEPT ![j] = Done(@)]
  /\ Finally
  /\ UNCHANGED << user_states, handler, updates, failures, senders >>

\* ------------------------------------------------------------ the program

\* An update arrives and pyrogram runs the first handler whose filter it
\* matches.
Dispatch(u) ==
  \/ handle_start(u)
  \/ handle_status(u)
  \/ handle_stop(u)
  \/ \E mode \in {"simple_forward", "edit_forward"} : handle_forward(u, mode)
  \/ handle_conversation(u)

\* A suspended handler is resumed.
Resume(u) ==
  \/ CommandReplied(u)
  \/ ForwardPrompted(u)
  \/ ForwardExcepted(u)
  \/ ConversationReplied(u)
  \/ LaunchReplied(u)
  \/ ConversationExcepted(u)
  \/ HandlerReturned(u)

\* A task is resumed.
JobStep(j) ==
  \/ JobStart(j)
  \/ JobStatusSent(j)
  \/ JobFetch(j)
  \/ JobRelayed(j)
  \/ JobPaced(j)
  \/ JobSummarised(j)
  \/ JobAcked(j)
  \/ JobExcepted(j)

Next ==
  \/ \E u \in Users : Dispatch(u) \/ Resume(u)
  \/ \E j \in Jobs : JobStep(j)

Spec == Init /\ [][Next]_vars

RaceSpec == InitRace /\ [][Next]_vars

\* The state in which user u1 has just completed a wizard with "-" at the
\* limit step and its task has been created: the source text is any of
\* SourceTexts, and four updates of the run are left.
InitTask ==
  /\ is_forwarding = FALSE
  /\ user_states = EmptyDict
  /\ handler = [u \in Users |-> Idle]
  /\ \E s \in SourceTexts : \E user_data \in CompletedSessions(s) :
       jobs = [j \in Jobs |->
                 IF j = 1 THEN NewJob("u1", user_data, None) ELSE NoJob]
  /\ failures = 0
  /\ senders = {"u1"}
  /\ updates = MaxUpdates - 4

TaskSpec == InitTask /\ [][Next]_vars

\* The event loop resumes every task that can run.
Fairness == \A j \in Jobs : WF_vars(JobStep(j))

FairSpec == Spec /\ Fairness

\* ============================================================== properties

\* C1 (as claimed): at any time at most one forwarding task has been created
\* and has not exited.
C1_AtMostOneJob == Cardinality(Live) <= 1

\* C2 (as claimed): the flag is true exactly when some task is between its
\* start step and its finally block.
C2_FlagIffStarted == is_forwarding <=> (Started # {})

\* C2 (amended): whenever the flag is true, some task is between its start
\* step and its finally block; the flag is never true with no task in flight.
C2_FlagImpliesStarted == is_forwarding => (Started # {})

\* C2 witness: the flag is true again while a task a /stop was addressed to
\* is still in flight.
C2_Witness ==
  /\ is_forwarding
  /\ \E j \in Started : jobs[j].stop_requested

\* C3 (as claimed): a task a /stop was handled for leaves its loop at its
\* next loop check, and makes no forward or copy call for a message fetched
\* after the /stop.
C3_StopHaltsJob ==
  [][\A j \in Jobs :
       (/\ jobs[j].pc = "loop"
        /\ jobs[j].stop_requested
        /\ jobs'[j].pc # "loop")
       => jobs'[j].pc \in {"complete", "except"}]_vars

\* The replies _handle_limits_step sends.
LimitReplies == {"limit_error", "conflict", "starting"}

\* What the limit step is documented to accept: "-" or a positive integer.
ValidLimitText(t) == t = << "-" >> \/ (IsDigit(t) /\ ToInt(t) > 0)

\* C4: under fair scheduling every created task exits; the step by which a
\* task exits leaves the flag false, on every exit path; and once a task has
\* exited and no task is left, a limit step with a valid limit goes on to
\* launch (and creates the task when its "Starting" reply returns) instead of
\* being rejected.
C4_JobsExitAndRelease ==
  /\ \A j \in Jobs : (jobs[j].pc = "created") ~> (jobs[j].pc = "done")
  /\ [][\A j \in Jobs :
          (jobs[j].pc # "done" /\ jobs'[j].pc = "done") => ~is_forwarding']_vars
  /\ [][\A u \in Users :
          /\ (/\ Live = {}
              /\ \E j \in Jobs : jobs[j].pc = "done"
              /\ handler[u].pc = "idle"
              /\ handler'[u].reply \in LimitReplies
              /\ ValidLimitText(handler'[u].text))
             => handler'[u].pc = "launch"
          /\ (handler[u].pc = "launch" /\ handler'[u].pc = "idle")
             => Cardinality(Created') = Cardinality(Created) + 1]_vars

\* C4 witness: after a task has exited, with no task left, a limit step has
\* gone on to launch.
C4_Witness ==
  /\ Live = {}
  /\ \E j \in Jobs : jobs[j].pc = "done"
  /\ \E u \in Users : handler[u].pc = "launch"

\* C5 (as claimed): a limit text that is neither "-" nor a positive integer
\* gets the error reply, the session stays as it was, and nothing is launched.
C5_InvalidLimitRefused ==
  \A u \in Users :
    (handler[u].reply \in LimitReplies /\ ~ValidLimitText(handler[u].text))
    => /\ handler[u].reply = "limit_error"
       /\ u \in DOMAIN user_states
       /\ user_states[u] = handler[u].user_data

\* C6: a limit step with a valid limit, taken while the flag is set, sends
\* the conflict notice, deletes the session and leaves the task table as it
\* is; and the handler that sent the notice never launches: every later step
\* of it leaves the task table as it is and the user without session.
C6_ConflictRejected ==
  [][\A u \in Users :
       /\ (/\ handler[u].pc = "idle"
           /\ handler'[u].reply \in LimitReplies
           /\ is_forwarding
           /\ ValidLimitText(handler'[u].text))
          => /\ handler'[u].reply = "conflict"
             /\ u \notin DOMAIN user_states'
             /\ jobs' = jobs
       /\ (/\ handler[u].pc \in {"conversation", "conversation_except"}
           /\ handler'[u] # handler[u])
          => /\ handler'[u].pc # "launch"
             /\ jobs' = jobs
       /\ (handler[u].reply = "conflict" /\ handler'[u] # handler[u])
          => u \notin DOMAIN user_states']_vars

\* C6 witness: the conflict notice is being sent while a task that has
\* already relayed a message is in its loop.
C6_Witness ==
  \E u \in Users :
    /\ handler[u].reply = "conflict"
    /\ \E j \in Started :
         jobs[j].forwarded_count > 0 /\ jobs[j].pc \in {"loop", "relay", "sleep"}

\* The steps of a wizard of the mode, in order.
WizardOrder(mode) ==
  IF mode = "edit_forward"
  THEN << "waiting_source", "waiting_destination", "waiting_find_text",
          "waiting_replace_text", "waiting_limits" >>
  ELSE << "waiting_source", "waiting_destination", "waiting_limits" >>

Follows(mode, a, b) ==
  \E i \in 1..(Len(WizardOrder(mode)) - 1) :
    WizardOrder(mode)[i] = a /\ WizardOrder(mode)[i + 1] = b

\* C7: a session is only ever at a step of its mode's sequence; a session
\* changes only when a text message of its user is taken up, and then its
\* mode stays and its step moves to the next step of the sequence; a text
\* message taken up at a step before the limit step moves the step by exactly
\* one.
C7_StepOrder ==
  [][\A u \in Users :
       /\ u \in DOMAIN user_states'
          => \E i \in 1..Len(WizardOrder(user_states'[u].mode)) :
               WizardOrder(user_states'[u].mode)[i] = user_states'[u].step
       /\ (/\ u \in DOMAIN user_states
           /\ u \in DOMAIN user_states'
           /\ user_states'[u] # user_states[u]
           /\ handler[u].pc # "forward")
          => /\ handler[u].pc = "idle"
             /\ handler'[u].pc = "conversation"
             /\ user_states'[u].mode = user_states[u].mode
             /\ Follows(user_states[u].mode, user_states[u].step,
                        user_states'[u].step)
       /\ (/\ u \in DOMAIN user_states
           /\ user_states[u].step # "waiting_limits"
           /\ handler[u].pc = "idle"
           /\ handler'[u].pc = "conversation")
          => /\ u \in DOMAIN user_states'
             /\ Follows(user_states[u].mode, user_states[u].step,
                        user_states'[u].step)]_vars

\* C7 witness: an edit_forward session has come through all its steps to the
\* limit step.
C7_Witness ==
  \E u \in DOMAIN user_states :
    /\ user_states[u].mode = "edit_forward"
    /\ user_states[u].step = "waiting_limits"
    /\ handler[u].pc = "idle"

\* The places of s where old occurs.
Occurrences(s, old) ==
  {i \in 1..(Len(s) - Len(old) + 1) : SubSeq(s, i, i + Len(old) - 1) = old}

\* s with new in the place of every occurrence of old, for a non-empty old
\* whose occurrences in s do not overlap: place by place, an occurrence's
\* first character gives new, its other characters give nothing, and every
\* other character stays.
RECURSIVE EveryOccurrenceReplacedFrom(_, _, _, _)
EveryOccurrenceReplacedFrom(s, old, new, i) ==
  IF i > Len(s) THEN << >>
  ELSE (IF i \in Occurrences(s, old) THEN new
        ELSE IF \E p \in Occurrences(s, old) : p < i /\ i < p + Len(old)
        THEN << >>
        ELSE << s[i] >>)
       \o EveryOccurrenceReplacedFrom(s, old, new, i + 1)

EveryOccurrenceReplaced(s, old, new) ==
  EveryOccurrenceReplacedFrom(s, old, new, 1)

\* C8: the call a task awaits for the message it has fetched is copy, with
\* every occurrence of find_text in the caption replaced by replace_text,
\* exactly when the task is execute_edit_forward and the message has a
\* caption that holds find_text; otherwise it is forward.
C8_RelayChoice ==
  \A j \in Jobs :
    jobs[j].pc = "relay" =>
      LET job == jobs[j]
          caption == Caption(job.fetched)
      IN IF /\ job.mode = "edit_forward"
            /\ caption # None
            /\ Occurrences(caption[1], job.find_text) # {}
         THEN /\ job.call.kind = "copy"
              /\ job.call.caption =
                   Some(EveryOccurrenceReplaced(caption[1], job.find_text,
                                                job.replace_text))
         ELSE job.call.kind = "forward"

\* C8 witness: execute_edit_forward awaits a copy of the message whose
\* caption holds find_text twice, with a non-empty replacement.
C8_Witness ==
  \E j \in Jobs :
    /\ jobs[j].pc = "relay"
    /\ jobs[j].mode = "edit_forward"
    /\ jobs[j].call.kind = "copy"
    /\ Len(jobs[j].replace_text) > 0
    /\ Cardinality(Occurrences(Caption(jobs[j].fetched)[1],
                               jobs[j].find_text)) = 2

\* C9: in every task, edited_count <= forwarded_count, edited_count is the
\* number of copy calls that returned, and forwarded_count never goes down
\* while the task lives.
C9_Counters ==
  [][\A j \in Jobs :
       jobs'[j].pc \notin {"none", "done"}
       => /\ jobs'[j].edited_count <= jobs'[j].forwarded_count
          /\ jobs'[j].edited_count = jobs'[j].copied
          /\ jobs'[j].forwarded_count >= jobs[j].forwarded_count]_vars

\* C9 witness: execute_edit_forward has made a copy call that raised, and has
\* then relayed later messages: one of them copied, one forwarded.
C9_Witness ==
  \E j \in Jobs :
    /\ jobs[j].mode = "edit_forward"
    /\ jobs[j].edited_count = 1
    /\ jobs[j].forwarded_count = 2
    /\ jobs[j].attempted > jobs[j].forwarded_count

\* C10 (as claimed): a task no /stop was handled for, and whose loop ended
\* without the history iterator raising, has made min(limit, HistLen) relay
\* calls (HistLen with no limit), and forwarded_count is at most the limit.
C10_AttemptsAll ==
  \A j \in Jobs :
    (jobs[j].pc = "complete" /\ ~jobs[j].stop_requested)
    => IF jobs[j].limit = None
       THEN jobs[j].attempted = HistLen
       ELSE /\ jobs[j].attempted =
                 (IF jobs[j].limit[1] < HistLen
                  THEN jobs[j].limit[1] ELSE HistLen)
            /\ jobs[j].forwarded_count <= jobs[j].limit[1]

\* C11: a forward or copy call, or a progress edit, that raises never ends the
\* task: the step by which the call ends, returning or raising, leaves the
\* task inside its loop with the history iterator where it was and the exit
\* reason unset; and from the head of the loop, with the flag set and the
\* iterator yielding a further message, that message is attempted, whatever
\* happened to the messages before it.
C11_FailureKeepsLooping ==
  [][\A j \in Jobs :
       /\ (jobs[j].pc \in {"relay", "progress"} /\ jobs'[j].pc # jobs[j].pc)
          => /\ jobs'[j].pc \in {"progress", "sleep", "loop"}
             /\ jobs'[j].fetched = jobs[j].fetched
             /\ jobs'[j].exit = ""
             /\ failures' # failures => jobs'[j].pc = "loop"
       /\ (/\ jobs[j].pc = "loop"
           /\ jobs'[j].pc # "loop"
           /\ failures' = failures
           /\ is_forwarding
           /\ jobs[j].fetched < Total(jobs[j].source, jobs[j].limit))
          => /\ jobs'[j].pc = "relay"
             /\ jobs'[j].fetched = jobs[j].fetched + 1
             /\ jobs'[j].attempted = jobs[j].attempted + 1]_vars

\* C11 witness: a task whose forward or copy call raised for an earlier
\* message is awaiting the call for a later message.
C11_Witness ==
  \E j \in Jobs :
    /\ jobs[j].pc = "relay"
    /\ jobs[j].attempted >= jobs[j].forwarded_count + 2

\* C12 (as claimed): the source a task works with is a fixed point of the
\* normalization, whatever source text the task was given.
C12_Idempotent ==
  \A j \in Started : CleanSource(jobs[j].source) = jobs[j].source

\* C12 (amended): a task given 'https://t.me/foo', '@foo' or 'foo' works with
\* 'foo'; the source a task works with is a fixed point of the normalization
\* unless the text it was given has the link prefix behind one or more "@":
\* of such a text only the "@"s are stripped, the result still begins with
\* the prefix, and normalizing it again gives something else.
C12_Normalization ==
  \A j \in Started :
    LET given == jobs[j].given
        source == jobs[j].source
    IN /\ given \in {HttpsPrefix \o Foo, << "@" >> \o Foo, Foo} => source = Foo
       /\ IF /\ ~StartsWith(given, HttpsPrefix)
             /\ StartsWith(LStrip(given, {"@"}), HttpsPrefix)
          THEN /\ source = LStrip(given, {"@"})
               /\ CleanSource(source) # source
          ELSE CleanSource(source) = source

\* C12 witness: a task given 'https://t.me/@foo' has started and works with
\* 'foo'.
C12_Witness ==
  \E j \in Started :
    /\ jobs[j].given = HttpsPrefix \o << "@" >> \o Foo
    /\ jobs[j].source = Foo

\* C13 (as claimed): the replace step, which in the edit_forward wizard is the
\* step that sends the limits prompt, has stored the empty string for the
\* message text "-" and the message text itself, as it was sent, for any
\* other.
C13_ReplaceVerbatim ==
  \A u \in Users :
    (/\ handler[u].reply = "limits_prompt"
     /\ handler[u].user_data.mode = "edit_forward")
    => handler[u].user_data.replace_text =
         (IF handler[u].message = << "-" >> THEN << >> ELSE handler[u].message)

\* C14 (as claimed): when a task has left its loop, forwarded_count is the
\* number of messages it attempted, failed calls included.
C14_CountsAttempts ==
  \A j \in Jobs :
    jobs[j].pc \in {"complete", "ack", "except"}
    => jobs[j].forwarded_count = jobs[j].attempted

\* C14 (amended): forwarded_count goes up by one in the step in which a
\* forward or copy call returns, stays as it is in the step in which such a
\* call raises, and is changed by no other step of a live task; so it counts
\* the messages relayed, and is at most the number of messages attempted.
C14_CountsRelayed ==
  [][\A j \in Jobs :
       /\ (jobs[j].pc = "relay" /\ jobs'[j].pc # "relay")
          => jobs'[j].forwarded_count =
               jobs[j].forwarded_count + (IF failures' = failures THEN 1 ELSE 0)
       /\ (jobs[j].pc # "relay" /\ jobs'[j].pc # "done")
          => jobs'[j].forwarded_count = jobs[j].forwarded_count
       /\ jobs'[j].forwarded_count <= jobs'[j].attempted]_vars

\* C14 witness: a task has left its loop with every message of the history
\* attempted and one of them, whose call raised, not counted.
C14_Witness ==
  \E j \in Jobs :
    /\ jobs[j].pc = "complete"
    /\ jobs[j].attempted = HistLen
    /\ jobs[j].forwarded_count = HistLen - 1

\* C15 (as claimed): a task whose forward or copy call, or the progress edit
\* after it, has ended goes on to the rate-limit sleep (through the progress
\* edit, when one is due) before it is back at the head of its loop for the
\* next call.
C15_SleepsAfterEveryMessage ==
  [][\A j \in Jobs :
       (jobs[j].pc \in {"relay", "progress"} /\ jobs'[j].pc # jobs[j].pc)
       => jobs'[j].pc \in {"progress", "sleep"}]_vars

\* C16 (as claimed): the limit step that goes on to the conflict notice or to
\* the launch has deleted the user's session; and a conversation step that
\* raised, whose handler ends through the except clause, leaves the user
\* without session.
C16_FailedStepEndsSessionless ==
  [][\A u \in Users :
       /\ (handler[u].pc = "idle" /\ handler'[u].reply \in {"conflict", "starting"})
          => u \notin DOMAIN user_states'
       /\ (handler[u].pc = "conversation_except" /\ handler'[u].pc = "idle")
          => u \notin DOMAIN user_states']_vars

\* C17 (as claimed): when the handler of a /forward or /forward_edit of a
\* user with an open session ends its prompt, the user has the new session:
\* the mode of the command, the source step, and no collected field.
C17_AlwaysReplaced ==
  [][\A u \in Users :
       (/\ handler[u].pc = "forward"
        /\ handler'[u].pc # "forward"
        /\ u \in DOMAIN user_states)
       => /\ u \in DOMAIN user_states'
          /\ user_states'[u] =
               [mode |-> handler[u].user_data.mode, step |-> "waiting_source",
                chat_id |-> u]]_vars

\* C17 (amended): when the prompt of a /forward or /forward_edit returns, the
\* user has exactly the new session, whatever session the user had before:
\* the mode of the command, the source step, the chat id and no collected
\* field; when the prompt raises, the user's session, if any, is left as it
\* was.  Either way the sessions of the other users are unchanged.
C17_ReplacedOnPrompt ==
  [][\A u \in Users :
       (handler[u].pc = "forward" /\ handler'[u].pc # "forward")
       => /\ IF failures' = failures
             THEN /\ u \in DOMAIN user_states'
                  /\ user_states'[u] =
                       [mode |-> handler[u].user_data.mode,
                        step |-> "waiting_source", chat_id |-> u]
             ELSE /\ (u \in DOMAIN user_states') = (u \in DOMAIN user_states)
                  /\ u \in DOMAIN user_states
                     => user_states'[u] = user_states[u]
          /\ \A v \in Users \ {u} :
               /\ (v \in DOMAIN user_states') = (v \in DOMAIN user_states)
               /\ v \in DOMAIN user_states
                  => user_states'[v] = user_states[v]]_vars

\* C17 witness: the prompt of a /forward_edit is awaited for a user whose
\* simple_forward session has reached the limit step, while another user has
\* a session with a source collected.
C17_Witness ==
  \E u \in Users :
    /\ handler[u].pc = "forward"
    /\ handler[u].user_data.mode = "edit_forward"
    /\ u \in DOMAIN user_states
    /\ user_states[u].mode = "simple_forward"
    /\ user_states[u].step = "waiting_limits"
    /\ \E v \in DOMAIN user_states \ {u} :
         user_states[v].step = "waiting_destination"

\* C18: every step of a /start or /status handler leaves the flag and the
\* sessions as they are; every step of a /stop handler leaves the sessions as
\* they are and the flag too, but for its first step with the flag set, which
\* clears it and answers that forwarding stopped; and a text message of a user
\* without session is taken up by a handler that sends no reply and ends, with
\* the flag and the sessions as they are.  No step handler runs for a user
\* without session.
C18_Frame ==
  [][\A u \in Users :
       LET from == handler[u].pc
           to == handler'[u].pc
       IN /\ (from # to /\ {from, to} \cap {"start", "status", "returned"} # {})
             => /\ is_forwarding' = is_forwarding
                /\ user_states' = user_states
          /\ (from # to /\ "stop" \in {from, to})
             => /\ user_states' = user_states
                /\ ~is_forwarding'
                /\ is_forwarding' # is_forwarding => from = "idle"
                /\ from = "idle" =>
                     handler'[u].reply =
                       (IF is_forwarding THEN "stopped" ELSE "nothing_to_stop")
          /\ (from = "idle" /\ to # "idle" /\ u \notin DOMAIN user_states)
             => to \in {"start", "status", "stop", "forward", "returned"}
          /\ to = "returned" => handler'[u].reply = "" /\ u \notin DOMAIN user_states
          /\ from = "returned" => to \in {"returned", "idle"}]_vars

\* C18 witness: a /stop is answering that forwarding stopped while its sender
\* has a session open and the stopped task is still in flight.
C18_Witness ==
  \E u \in DOMAIN user_states :
    /\ handler[u].pc = "stop"
    /\ handler[u].reply = "stopped"
    /\ user_states[u].step = "waiting_destination"
    /\ Started # {}

\* C19: the step in which a forward or copy call ends goes on to the progress
\* edit exactly when the call returned and forwarded_count, just incremented,
\* is a positive multiple of 20; no other step starts a progress edit; and the
\* text of a progress edit that is awaited shows the task's counters as they
\* are: forwarded_count, and edited_count in execute_edit_forward.
C19_ProgressEdits ==
  [][\A j \in Jobs :
       /\ (jobs[j].pc = "relay" /\ jobs'[j].pc # "relay")
          => (jobs'[j].pc = "progress"
              <=> /\ failures' = failures
                  /\ jobs'[j].forwarded_count = jobs[j].forwarded_count + 1
                  /\ jobs'[j].forwarded_count > 0
                  /\ jobs'[j].forwarded_count % 20 = 0)
       /\ (jobs[j].pc # "progress" /\ jobs'[j].pc = "progress")
          => jobs[j].pc = "relay"
       /\ jobs'[j].pc = "progress"
          => jobs'[j].shown =
               Some(IF jobs'[j].mode = "edit_forward"
                    THEN << jobs'[j].forwarded_count, jobs'[j].edited_count >>
                    ELSE << jobs'[j].forwarded_count >>)
       /\ jobs'[j].pc \notin {"none", "done", "progress"}
          => jobs'[j].shown = None]_vars

\* C19 witness: execute_edit_forward awaits the progress edit for its 20th
\* relayed message, which is not the 20th message it attempted.
C19_Witness ==
  \E j \in Jobs :
    /\ jobs[j].pc = "progress"
    /\ jobs[j].mode = "edit_forward"
    /\ jobs[j].forwarded_count = 20
    /\ jobs[j].edited_count > 0
    /\ jobs[j].attempted = 21

\* C20 (as claimed): a task that left its loop at the loop check, with the
\* history not exhausted and its limit not reached, is a task a /stop was
\* handled for after it set the flag.
C20_HaltsOnlyOnStop ==
  \A j \in Jobs : jobs[j].exit = "stopped" => jobs[j].stop_requested

\* The keys a session of the mode has when all its fields are collected.
CollectedKeys(mode) ==
  {"mode", "step", "chat_id", "source", "destination"}
    \cup (IF mode = "edit_forward" THEN {"find_text", "replace_text"} ELSE {})

\* C21: a session at the limit step has source and destination, and in mode
\* edit_forward find_text and replace_text too.  A handler goes on to launch
\* only from such a session of its user, which it deletes in that step; a
\* task is created only by a launching handler, one task a step, with the
\* parameters that session held; and when a task takes its first step, the
\* user it was created for has no session.
C21_CompleteParameters ==
  /\ [](\A u \in DOMAIN user_states :
          user_states[u].step = "waiting_limits"
          => DOMAIN user_states[u] = CollectedKeys(user_states[u].mode))
  /\ [][\A u \in Users :
          (handler[u].pc = "idle" /\ handler'[u].pc = "launch")
          => /\ u \in DOMAIN user_states
             /\ user_states[u].step = "waiting_limits"
             /\ handler'[u].user_data = user_states[u]
             /\ u \notin DOMAIN user_states']_vars
  /\ [][\A j \in Jobs :
          /\ (jobs[j].pc = "none" /\ jobs'[j].pc # "none")
             => /\ jobs'[j].pc = "created"
                /\ \A k \in Jobs \ {j} : jobs'[k] = jobs[k]
                /\ \E u \in Users :
                     LET user_data == handler[u].user_data IN
                     /\ handler[u].pc = "launch"
                     /\ handler'[u].pc = "idle"
                     /\ jobs'[j].owner = u
                     /\ jobs'[j].mode = user_data.mode
                     /\ jobs'[j].source = user_data.source
                     /\ jobs'[j].destination = user_data.destination
                     /\ user_data.mode = "edit_forward"
                        => /\ jobs'[j].find_text = user_data.find_text
                           /\ jobs'[j].replace_text = user_data.replace_text
          /\ (jobs[j].pc = "created" /\ jobs'[j].pc # "created")
             => jobs[j].owner \notin DOMAIN user_states]_vars

\* C21 witness: the task of an edit_forward wizard has been created, with a
\* replacement text, and is about to take its first step.
C21_Witness ==
  \E j \in Jobs :
    /\ jobs[j].pc = "created"
    /\ jobs[j].mode = "edit_forward"
    /\ jobs[j].find_text = << "a", "b" >>
    /\ jobs[j].replace_text = << "z" >>
    /\ jobs[j].owner \notin DOMAIN user_states

====
